---- MODULE Spec2Model ----
(***************************************************************************)
(* enmime header handling: readHeader, decodeHeader,                       *)
(* decodeToUTF8Base64Header (src/header.go) and the MIMEError record       *)
(* (src/unnamed/part_002).                                                  *)
(*                                                                         *)
(* A Go string / []byte is a sequence of bytes (0..255).  Offsets inside   *)
(* the operators are Go's 0-based offsets; Slice(s, lo, hi) is s[lo:hi].   *)
(***************************************************************************)
EXTENDS Integers, Sequences, FiniteSets, TLC

VARIABLES
    \* ---- readHeader (src/header.go:63-84) and the reader it shares ----
    data,       \* the bytes behind the *bufio.Reader r
    size,       \* r's buffer size
    strict,     \* which generation of net/textproto the build links
    pos,        \* bytes of data consumed through r
    buf,        \* readHeader's local buf
    pc,         \* "idle" | "loop" | "done" | "body"
    header,     \* returned textproto.MIMEHeader
    err,        \* returned error
    pErrors,    \* p.Errors
    stopLine,   \* the line on which the loop ended
    bodyLine,   \* what the caller's next r.ReadLine() yields
    \* ---- decodeHeader / decodeToUTF8Base64Header ----
    words,      \* the header value: its words (encoded-words and literal text),
    gap,        \*   what stands between two neighbouring words,
    wrapped,    \*   and whether the whole is enclosed in ( )
    phase,      \* "idle" | "input" | "decoded" | "reencoded" | "roundtrip"
    decoded,    \* decodeHeader(value)
    reencoded,  \* decodeToUTF8Base64Header(value)
    redecoded,  \* decodeHeader(reencoded)
    \* ---- MIMEError ----
    made,       \* the records built so far, each with the constructor used
    rendered    \* the last result of String(), with the record it was called on

hdrVars == <<data, size, strict, pos, buf, pc, header, err, pErrors, stopLine, bodyLine>>
wordVars == <<words, gap, wrapped, phase, decoded, reencoded, redecoded>>
errVars == <<made, rendered>>
vars == <<hdrVars, wordVars, errVars>>

(***************************************************************************)
(* Bounds of the model.                                                    *)
(***************************************************************************)
MaxLines == 3
MaxWords == 2
MaxErrors == 2

(***************************************************************************)
(* Bytes and string literals.                                              *)
(***************************************************************************)
Printable ==
    <<" ", "!", "DQUOTE", "#", "$", "%", "&", "'", "(", ")", "*", "+", ",", "-", ".", "/",
      "0", "1", "2", "3", "4", "5", "6", "7", "8", "9", ":", ";", "<", "=", ">", "?",
      "@", "A", "B", "C", "D", "E", "F", "G", "H", "I", "J", "K", "L", "M", "N", "O",
      "P", "Q", "R", "S", "T", "U", "V", "W", "X", "Y", "Z", "[", "BACKSLASH", "]", "^", "_",
      "BACKTICK", "a", "b", "c", "d", "e", "f", "g", "h", "i", "j", "k", "l", "m", "n", "o",
      "p", "q", "r", "s", "t", "u", "v", "w", "x", "y", "z", "{", "|", "}", "~">>

\* The byte of a one-character literal (the placeholders in Printable keep
\* the positions of the double quote, the backslash and the backtick).
Ord(ch) ==
    CASE ch = "\t" -> 9
      [] ch = "\n" -> 10
      [] ch = "\r" -> 13
      [] OTHER -> 31 + (CHOOSE i \in 1..Len(Printable) : Printable[i] = ch)

\* The Go string literal spelled by a tuple of one-character literals.
Str(chars) == [i \in 1..Len(chars) |-> Ord(chars[i])]

Slice(s, lo, hi) == SubSeq(s, lo + 1, hi)

SetMin(S) == CHOOSE x \in S : \A y \in S : x <= y

RECURSIVE Flatten(_)
Flatten(ss) == IF ss = <<>> THEN <<>> ELSE Head(ss) \o Flatten(Tail(ss))

(***************************************************************************)
(* package strings                                                         *)
(***************************************************************************)
Index(s, sub) ==
    LET at == {i \in 0..(Len(s) - Len(sub)) : Slice(s, i, i + Len(sub)) = sub}
    IN  IF at = {} THEN -1 ELSE SetMin(at)

Contains(s, sub) == Index(s, sub) >= 0

ToLowerByte(b) == IF b >= 65 /\ b <= 90 THEN b + 32 ELSE b
ToUpperByte(b) == IF b >= 97 /\ b <= 122 THEN b - 32 ELSE b
ToLower(s) == [i \in 1..Len(s) |-> ToLowerByte(s[i])]
EqualFold(a, b) == ToLower(a) = ToLower(b)

RECURSIVE Join(_, _)
Join(elems, sep) ==
    IF elems = <<>> THEN <<>>
    ELSE IF Len(elems) = 1 THEN elems[1]
    ELSE elems[1] \o sep \o Join(Tail(elems), sep)

\* isWhiteSpaceRune, src/header.go:138-151
isWhiteSpaceRune(r) == r = 32 \/ r = 9 \/ r = 13 \/ r = 10

\* strings.FieldsFunc(s, isWhiteSpaceRune): the maximal runs of non-white-space.
RECURSIVE FieldsFrom(_, _, _)
FieldsFrom(s, i, cur) ==
    IF i > Len(s) THEN (IF cur = <<>> THEN <<>> ELSE <<cur>>)
    ELSE IF isWhiteSpaceRune(s[i])
         THEN (IF cur = <<>> THEN <<>> ELSE <<cur>>) \o FieldsFrom(s, i + 1, <<>>)
         ELSE FieldsFrom(s, i + 1, Append(cur, s[i]))

FieldsFunc(s) == FieldsFrom(s, 1, <<>>)

(***************************************************************************)
(* encoding/base64, StdEncoding                                            *)
(***************************************************************************)
encodeStd ==
    Str(<<"A", "B", "C", "D", "E", "F", "G", "H", "I", "J", "K", "L", "M", "N", "O", "P",
          "Q", "R", "S", "T", "U", "V", "W", "X", "Y", "Z", "a", "b", "c", "d", "e", "f",
          "g", "h", "i", "j", "k", "l", "m", "n", "o", "p", "q", "r", "s", "t", "u", "v",
          "w", "x", "y", "z", "0", "1", "2", "3", "4", "5", "6", "7", "8", "9", "+", "/">>)

PadChar == Ord("=")

IsB64(c) == \E i \in 1..64 : encodeStd[i] = c
B64Val(c) == (CHOOSE i \in 1..64 : encodeStd[i] = c) - 1

RECURSIVE B64Encode(_)
B64Encode(s) ==
    IF Len(s) = 0 THEN <<>>
    ELSE IF Len(s) = 1 THEN
        <<encodeStd[(s[1] \div 4) + 1], encodeStd[((s[1] % 4) * 16) + 1], PadChar, PadChar>>
    ELSE IF Len(s) = 2 THEN
        <<encodeStd[(s[1] \div 4) + 1],
          encodeStd[((s[1] % 4) * 16 + (s[2] \div 16)) + 1],
          encodeStd[((s[2] % 16) * 4) + 1], PadChar>>
    ELSE
        <<encodeStd[(s[1] \div 4) + 1],
          encodeStd[((s[1] % 4) * 16 + (s[2] \div 16)) + 1],
          encodeStd[((s[2] % 16) * 4 + (s[3] \div 64)) + 1],
          encodeStd[(s[3] % 64) + 1]>> \o B64Encode(Slice(s, 3, Len(s)))

\* DecodeString drops CR and LF before it decodes.
RECURSIVE DropNewlines(_)
DropNewlines(s) ==
    IF s = <<>> THEN <<>>
    ELSE IF Head(s) = 13 \/ Head(s) = 10 THEN DropNewlines(Tail(s))
    ELSE <<Head(s)>> \o DropNewlines(Tail(s))

\* One 4-character quantum; last says whether padding may appear in it.
B64Quantum(q, last) ==
    IF IsB64(q[1]) /\ IsB64(q[2]) /\ IsB64(q[3]) /\ IsB64(q[4]) THEN
        [err |-> FALSE,
         b |-> <<B64Val(q[1]) * 4 + (B64Val(q[2]) \div 16),
                 (B64Val(q[2]) % 16) * 16 + (B64Val(q[3]) \div 4),
                 (B64Val(q[3]) % 4) * 64 + B64Val(q[4])>>]
    ELSE IF last /\ IsB64(q[1]) /\ IsB64(q[2]) /\ IsB64(q[3]) /\ q[4] = PadChar THEN
        [err |-> FALSE,
         b |-> <<B64Val(q[1]) * 4 + (B64Val(q[2]) \div 16),
                 (B64Val(q[2]) % 16) * 16 + (B64Val(q[3]) \div 4)>>]
    ELSE IF last /\ IsB64(q[1]) /\ IsB64(q[2]) /\ q[3] = PadChar /\ q[4] = PadChar THEN
        [err |-> FALSE, b |-> <<B64Val(q[1]) * 4 + (B64Val(q[2]) \div 16)>>]
    ELSE [err |-> TRUE, b |-> <<>>]

RECURSIVE B64DecodeQuanta(_)
B64DecodeQuanta(s) ==
    IF Len(s) = 0 THEN [err |-> FALSE, b |-> <<>>]
    ELSE IF Len(s) < 4 THEN [err |-> TRUE, b |-> <<>>]
    ELSE LET q == B64Quantum(Slice(s, 0, 4), Len(s) = 4)
             rest == B64DecodeQuanta(Slice(s, 4, Len(s)))
         IN  IF q.err \/ rest.err THEN [err |-> TRUE, b |-> <<>>]
             ELSE [err |-> FALSE, b |-> q.b \o rest.b]

B64DecodeString(s) == B64DecodeQuanta(DropNewlines(s))

(***************************************************************************)
(* unicode/utf8                                                            *)
(***************************************************************************)
EncodeRune(r) ==
    IF r < 128 THEN <<r>>
    ELSE IF r < 2048 THEN <<192 + (r \div 64), 128 + (r % 64)>>
    ELSE <<224 + (r \div 4096), 128 + ((r \div 64) % 64), 128 + (r % 64)>>

\* utf8.RuneError, U+FFFD, as UTF-8
ReplacementChar == EncodeRune(65533)

(***************************************************************************)
(* package mime, encodedword.go: the decoder behind decodeHeader           *)
(* (dec.DecodeHeader, src/header.go:93-95) and the encoder behind          *)
(* decodeToUTF8Base64Header (mime.BEncoding.Encode, src/header.go:126).    *)
(***************************************************************************)
Failed == [err |-> TRUE, b |-> <<>>]

\* b in front of a decoding result, an error staying an error
Prepend(b, r) == IF r.err THEN Failed ELSE [err |-> FALSE, b |-> <<b>> \o r.b]

IsHex(c) == (c >= 48 /\ c <= 57) \/ (c >= 65 /\ c <= 70) \/ (c >= 97 /\ c <= 102)

fromHex(c) ==
    IF c >= 48 /\ c <= 57 THEN c - 48
    ELSE IF c >= 65 /\ c <= 70 THEN c - 65 + 10
    ELSE c - 97 + 10

\* qDecode: "_" is a space, "=XX" a byte, printable ASCII and CR LF TAB themselves
RECURSIVE qDecodeFrom(_, _)
qDecodeFrom(s, i) ==
    IF i >= Len(s) THEN [err |-> FALSE, b |-> <<>>]
    ELSE LET c == s[i + 1] IN
         IF c = Ord("_") THEN Prepend(32, qDecodeFrom(s, i + 1))
         ELSE IF c = Ord("=") THEN
              IF i + 2 >= Len(s) THEN Failed
              ELSE IF ~(IsHex(s[i + 2]) /\ IsHex(s[i + 3])) THEN Failed
              ELSE Prepend(fromHex(s[i + 2]) * 16 + fromHex(s[i + 3]), qDecodeFrom(s, i + 3))
         ELSE IF (c <= 126 /\ c >= 32) \/ c = 10 \/ c = 13 \/ c = 9
              THEN Prepend(c, qDecodeFrom(s, i + 1))
         ELSE Failed

qDecode(s) == qDecodeFrom(s, 0)

\* decode(encoding, text)
decode(encoding, text) ==
    IF encoding = Ord("B") \/ encoding = Ord("b") THEN B64DecodeString(text)
    ELSE IF encoding = Ord("Q") \/ encoding = Ord("q") THEN qDecode(text)
    ELSE Failed

\* hasNonWhitespace with the test for whitespace left out: any text between two
\* encoded-words counts as literal text
hasNonWhitespaceAlways(s) == Len(s) >= 0

hasNonWhitespace(s) == \E i \in 1..Len(s) : ~(s[i] = 32 \/ s[i] = 9 \/ s[i] = 10 \/ s[i] = 13)

(***************************************************************************)
(* newCharsetReader, the charset backend handed to the decoder             *)
(* (src/header.go:94).  Its code is not among the sources: it knows the    *)
(* charsets below and fails for any other name.  Of ISO-8859-2 only the    *)
(* ASCII half and of Big5 only the three characters of the tests are       *)
(* tabulated; anything else comes out as U+FFFD.                           *)
(***************************************************************************)
csLatin2 == Str(<<"i", "s", "o", "-", "8", "8", "5", "9", "-", "2">>)
csBig5 == Str(<<"b", "i", "g", "5">>)

RECURSIVE Latin2ToUTF8(_)
Latin2ToUTF8(b) ==
    IF b = <<>> THEN <<>>
    ELSE (IF Head(b) < 128 THEN <<Head(b)>> ELSE ReplacementChar) \o Latin2ToUTF8(Tail(b))

RECURSIVE Big5ToUTF8(_)
Big5ToUTF8(b) ==
    IF b = <<>> THEN <<>>
    ELSE IF Head(b) < 128 THEN <<Head(b)>> \o Big5ToUTF8(Tail(b))
    ELSE IF Len(b) >= 2 /\ b[1] = 161 /\ b[2] = 93 THEN EncodeRune(65288) \o Big5ToUTF8(Slice(b, 2, Len(b)))
    ELSE IF Len(b) >= 2 /\ b[1] = 161 /\ b[2] = 97 THEN EncodeRune(65371) \o Big5ToUTF8(Slice(b, 2, Len(b)))
    ELSE IF Len(b) >= 2 /\ b[1] = 161 /\ b[2] = 113 THEN EncodeRune(12296) \o Big5ToUTF8(Slice(b, 2, Len(b)))
    ELSE ReplacementChar \o Big5ToUTF8(Tail(b))

newCharsetReader(charset, input) ==
    IF ToLower(charset) = csLatin2 THEN [err |-> FALSE, s |-> Latin2ToUTF8(input)]
    ELSE IF ToLower(charset) = csBig5 THEN [err |-> FALSE, s |-> Big5ToUTF8(input)]
    ELSE [err |-> TRUE, s |-> <<>>]

(***************************************************************************)
(* WordDecoder.convert: UTF-8, ISO-8859-1 and US-ASCII are built in, any   *)
(* other charset goes to d.CharsetReader with its name in lower case.      *)
(***************************************************************************)
RECURSIVE Latin1ToUTF8(_)
Latin1ToUTF8(b) ==
    IF b = <<>> THEN <<>> ELSE EncodeRune(Head(b)) \o Latin1ToUTF8(Tail(b))

RECURSIVE AsciiToUTF8(_)
AsciiToUTF8(b) ==
    IF b = <<>> THEN <<>>
    ELSE (IF Head(b) >= 128 THEN ReplacementChar ELSE <<Head(b)>>) \o AsciiToUTF8(Tail(b))

convert(charset, content) ==
    IF EqualFold(Str(<<"u", "t", "f", "-", "8">>), charset)
        THEN [err |-> FALSE, s |-> content]
    ELSE IF EqualFold(Str(<<"i", "s", "o", "-", "8", "8", "5", "9", "-", "1">>), charset)
        THEN [err |-> FALSE, s |-> Latin1ToUTF8(content)]
    ELSE IF EqualFold(Str(<<"u", "s", "-", "a", "s", "c", "i", "i">>), charset)
        THEN [err |-> FALSE, s |-> AsciiToUTF8(content)]
    ELSE newCharsetReader(ToLower(charset), content)

(***************************************************************************)
(* WordDecoder.DecodeHeader: the scan for =?charset?e?text?= spans.        *)
(* A span whose text does not decode puts its "=?" out and the scan goes   *)
(* on behind it; a span that is cut short ends the scan (break); a charset *)
(* the decoder cannot convert makes the whole call fail.                   *)
(***************************************************************************)
RECURSIVE DecodeLoop(_, _, _)
DecodeLoop(out, hdr, betweenWords) ==
    LET rest == [err |-> FALSE, s |-> out \o hdr]
        start == Index(hdr, Str(<<"=", "?">>))
    IN
    IF start = -1 THEN rest
    ELSE
    LET cur1 == start + 2
        i == Index(Slice(hdr, cur1, Len(hdr)), Str(<<"?">>))
    IN
    IF i = -1 THEN rest
    ELSE
    LET charset == Slice(hdr, cur1, cur1 + i)
        cur2 == cur1 + i + 1
    IN
    IF Len(hdr) < cur2 + 4 THEN rest
    ELSE
    LET encoding == hdr[cur2 + 1]
        cur3 == cur2 + 1
    IN
    IF hdr[cur3 + 1] # Ord("?") THEN rest
    ELSE
    LET cur4 == cur3 + 1
        j == Index(Slice(hdr, cur4, Len(hdr)), Str(<<"?", "=">>))
    IN
    IF j = -1 THEN rest
    ELSE
    LET text == Slice(hdr, cur4, cur4 + j)
        end == cur4 + j + 2
        content == decode(encoding, text)
    IN
    IF content.err
    THEN DecodeLoop(out \o Slice(hdr, 0, start + 2), Slice(hdr, start + 2, Len(hdr)), FALSE)
    ELSE
    LET kept == IF start > 0 /\ (~betweenWords \/ hasNonWhitespace(Slice(hdr, 0, start)))
                THEN out \o Slice(hdr, 0, start)
                ELSE out
        conv == convert(charset, content.b)
    IN
    IF conv.err THEN [err |-> TRUE, s |-> <<>>]
    ELSE DecodeLoop(kept \o conv.s, Slice(hdr, end, Len(hdr)), TRUE)

DecodeHeader(hdr) ==
    LET i == Index(hdr, Str(<<"=", "?">>)) IN
    IF i = -1 THEN [err |-> FALSE, s |-> hdr]
    ELSE DecodeLoop(Slice(hdr, 0, i), Slice(hdr, i, Len(hdr)), FALSE)

\* needsEncoding: some character is neither printable ASCII nor a tab
needsEncoding(s) == \E i \in 1..Len(s) : (s[i] < 32 \/ s[i] > 126) /\ s[i] # 9

\* WordEncoder.encodeWord for BEncoding: one encoded-word (the text of this model
\* is far shorter than the 45 bytes beyond which newer encoders split it in two)
encodeWord(charset, s) ==
    Str(<<"=", "?">>) \o charset \o Str(<<"?", "b", "?">>) \o B64Encode(s) \o Str(<<"?", "=">>)

\* mime.BEncoding.Encode(charset, s)
Encode(charset, s) == IF ~needsEncoding(s) THEN s ELSE encodeWord(charset, s)

(***************************************************************************)
(* src/header.go                                                           *)
(***************************************************************************)
\* decodeHeader, src/header.go:87-100
decodeHeader(input) ==
    IF ~Contains(input, Str(<<"=", "?">>)) THEN input
    ELSE LET r == DecodeHeader(input) IN
         IF r.err THEN input ELSE r.s

\* one round of the loop of decodeToUTF8Base64Header, src/header.go:112-131
reencodeToken(token) ==
    IF Len(token) > 4 /\ Contains(token, Str(<<"=", "?">>)) THEN
        LET hasPrefix == token[1] = Ord("(")
            t1 == IF hasPrefix THEN Slice(token, 1, Len(token)) ELSE token
            hasSuffix == t1[Len(t1)] = Ord(")")
            t2 == IF hasSuffix THEN Slice(t1, 0, Len(t1) - 1) ELSE t1
        IN  (IF hasPrefix THEN Str(<<"(">>) ELSE <<>>)
            \o Encode(Str(<<"U", "T", "F", "-", "8">>), decodeHeader(t2))
            \o (IF hasSuffix THEN Str(<<")">>) ELSE <<>>)
    ELSE token

\* decodeToUTF8Base64Header, src/header.go:103-135
decodeToUTF8Base64Header(input) ==
    IF ~Contains(input, Str(<<"=", "?">>)) THEN input
    ELSE LET tokens == FieldsFunc(input)
             output == [i \in 1..Len(tokens) |-> reencodeToken(tokens[i])]
         IN  Join(output, Str(<<" ">>))

(***************************************************************************)
(* Header values for decodeHeader and decodeToUTF8Base64Header.            *)
(***************************************************************************)
\* encoded-words that decode
wA == Str(<<"=", "?", "I", "S", "O", "-", "8", "8", "5", "9", "-", "1", "?", "Q", "?", "a",
            "?", "=">>)
wE == Str(<<"=", "?", "i", "s", "o", "-", "8", "8", "5", "9", "-", "1", "?", "q", "?", "=",
            "e", "9", "?", "=">>)
wB == Str(<<"=", "?", "U", "T", "F", "-", "8", "?", "B", "?", "w", "6", "k", "=", "?", "=">>)
wL2 == Str(<<"=", "?", "I", "S", "O", "-", "8", "8", "5", "9", "-", "2", "?", "Q", "?", "_",
            "b", "?", "=">>)
\* encoded-words that do not: LF in the charset, CR for the encoding, an encoding
\* that is neither Q nor B, a mangled terminator, a charset nobody knows
xCharsetLF == Str(<<"=", "?", "U", "S", "\n", "A", "S", "C", "I", "I", "?", "Q", "?", "c", "?", "=">>)
xEncodingCR == Str(<<"=", "?", "U", "S", "-", "A", "S", "C", "I", "I", "?", "\r", "?", "c", "?", "=">>)
xLetter == Str(<<"=", "?", "U", "S", "-", "A", "S", "C", "I", "I", "?", "X", "?", "c", "?", "=">>)
xTerm == Str(<<"=", "?", "U", "S", "-", "A", "S", "C", "I", "I", "?", "Q", "?", "c", "?", "!">>)
xUnknown == Str(<<"=", "?", "x", "-", "u", "n", "k", "n", "o", "w", "n", "?", "Q", "?", "c", "?", "=">>)
\* literal text: a plain word, and a word with a byte beyond ASCII and a stray "=?"
litB == Str(<<"b">>)
litHigh == <<233>> \o Str(<<"=", "?", "x", "y">>)

GoodWords == {wA, wE, wB, wL2}
BadWords == {xCharsetLF, xEncodingCR, xLetter, xTerm, xUnknown}
Literals == {litB, litHigh}
Words == GoodWords \cup BadWords \cup Literals

Gaps == {<<>>, Str(<<" ">>), Str(<<" ", " ">>), Str(<<"\r", "\n", " ", " ">>)}

\* the value as the string handed to the functions
RECURSIVE JoinWords(_, _)
JoinWords(ws, g) ==
    IF ws = <<>> THEN <<>>
    ELSE IF Len(ws) = 1 THEN ws[1]
    ELSE ws[1] \o g \o JoinWords(Tail(ws), g)

ValueOf(ws, g, w) ==
    IF w THEN Str(<<"(">>) \o JoinWords(ws, g) \o Str(<<")">>) ELSE JoinWords(ws, g)

Value == ValueOf(words, gap, wrapped)

WordInit ==
    /\ words \in UNION {[1..n -> Words] : n \in 0..MaxWords}
    /\ gap \in Gaps
    /\ Len(words) < 2 => gap = <<>>
    /\ wrapped \in BOOLEAN
    /\ phase = "input"
    /\ decoded = <<>>
    /\ reencoded = <<>>
    /\ redecoded = <<>>
    /\ data = <<>> /\ size = 0 /\ strict = FALSE /\ pos = 0 /\ buf = <<>> /\ pc = "idle"
    /\ header = [nil |-> TRUE, m |-> <<>>] /\ err = "nil" /\ pErrors = <<>>
    /\ stopLine = <<>> /\ bodyLine = [line |-> <<>>, isPrefix |-> FALSE, err |-> "nil"]
    /\ made = <<>> /\ rendered = [of |-> 0, s |-> <<>>]

\* got := decodeHeader(in)
CallDecodeHeader ==
    /\ phase = "input"
    /\ decoded' = decodeHeader(Value)
    /\ phase' = "decoded"
    /\ UNCHANGED <<words, gap, wrapped, reencoded, redecoded, hdrVars, errVars>>

\* got := decodeToUTF8Base64Header(in)
CallDecodeToUTF8Base64Header ==
    /\ phase = "decoded"
    /\ reencoded' = decodeToUTF8Base64Header(Value)
    /\ phase' = "reencoded"
    /\ UNCHANGED <<words, gap, wrapped, decoded, redecoded, hdrVars, errVars>>

\* decodeHeader again, on the re-encoded value
CallDecodeReencoded ==
    /\ phase = "reencoded"
    /\ redecoded' = decodeHeader(reencoded)
    /\ phase' = "roundtrip"
    /\ UNCHANGED <<words, gap, wrapped, decoded, reencoded, hdrVars, errVars>>

WordNext == CallDecodeHeader \/ CallDecodeToUTF8Base64Header \/ CallDecodeReencoded

WordSpec == WordInit /\ [][WordNext]_vars

(***************************************************************************)
(* The inputs and results of src/header_test.go, as a cross-check of the   *)
(* operators above.                                                        *)
(***************************************************************************)
TestVectorsDecode ==
    /\ decodeHeader(Str(<<"T", "e", "s", "t">>)) = Str(<<"T", "e", "s", "t">>)
    /\ decodeHeader(Str(<<"T", "e", "s", "t", "i", "n", "g", " ", "O", "n", "e", " ", "t", "w", "o", " ",
            "3", " ", "4">>)) = Str(<<"T", "e", "s", "t", "i", "n", "g", " ", "O", "n", "e", " ", "t", "w", "o", " ",
            "3", " ", "4">>)
    /\ decodeHeader(Str(<<"=", "?", "U", "S", "\n", "A", "S", "C", "I", "I", "?", "Q", "?", "K", "e", "i",
            "t", "h", "_", "M", "o", "o", "r", "e", "?", "=">>)) = Str(<<"=", "?", "U", "S", "\n", "A", "S", "C", "I", "I", "?", "Q", "?", "K", "e", "i",
            "t", "h", "_", "M", "o", "o", "r", "e", "?", "=">>)
    /\ decodeHeader(Str(<<"=", "?", "U", "S", "-", "A", "S", "C", "I", "I", "?", "\r", "?", "K", "e", "i",
            "t", "h", "_", "M", "o", "o", "r", "e", "?", "=">>)) = Str(<<"=", "?", "U", "S", "-", "A", "S", "C", "I", "I", "?", "\r", "?", "K", "e", "i",
            "t", "h", "_", "M", "o", "o", "r", "e", "?", "=">>)
    /\ decodeHeader(Str(<<"=", "?", "U", "S", "-", "A", "S", "C", "I", "I", "?", "Q", "?", "K", "e", "i",
            "t", "h", "_", "M", "o", "o", "r", "e", "?", "!">>)) = Str(<<"=", "?", "U", "S", "-", "A", "S", "C", "I", "I", "?", "Q", "?", "K", "e", "i",
            "t", "h", "_", "M", "o", "o", "r", "e", "?", "!">>)
    /\ decodeHeader(Str(<<"=", "?", "U", "S", "-", "A", "S", "C", "I", "I", "?", "Q", "?", "K", "e", "i",
            "t", "h", "_", "M", "o", "o", "r", "e", "?", "=">>)) = Str(<<"K", "e", "i", "t", "h", " ", "M", "o", "o", "r", "e">>)
    /\ decodeHeader(Str(<<"=", "?", "U", "S", "-", "A", "S", "C", "I", "I", "?", "B", "?", "S", "G", "V",
            "s", "b", "G", "8", "g", "V", "2", "9", "y", "b", "G", "Q", "=", "?", "=">>)) = Str(<<"H", "e", "l", "l", "o", " ", "W", "o", "r", "l", "d">>)
    /\ decodeHeader(Str(<<"(", "=", "?", "U", "S", "-", "A", "S", "C", "I", "I", "?", "Q", "?", "K", "e",
            "i", "t", "h", "_", "M", "o", "o", "r", "e", "?", "=", ")">>)) = Str(<<"(", "K", "e", "i", "t", "h", " ", "M", "o", "o", "r", "e", ")">>)
    /\ decodeHeader(Str(<<"(", "K", "e", "i", "t", "h", " ", "=", "?", "U", "S", "-", "A", "S", "C", "I",
            "I", "?", "Q", "?", "M", "o", "o", "r", "e", "?", "=", ")">>)) = Str(<<"(", "K", "e", "i", "t", "h", " ", "M", "o", "o", "r", "e", ")">>)
    /\ decodeHeader(Str(<<"(", "=", "?", "I", "S", "O", "-", "8", "8", "5", "9", "-", "1", "?", "Q", "?",
            "a", "?", "=", ")">>)) = Str(<<"(", "a", ")">>)
    /\ decodeHeader(Str(<<"(", "=", "?", "I", "S", "O", "-", "8", "8", "5", "9", "-", "1", "?", "Q", "?",
            "a", "?", "=", " ", "b", ")">>)) = Str(<<"(", "a", " ", "b", ")">>)
    /\ decodeHeader(Str(<<"(", "=", "?", "I", "S", "O", "-", "8", "8", "5", "9", "-", "1", "?", "Q", "?",
            "a", "?", "=", " ", "=", "?", "I", "S", "O", "-", "8", "8", "5", "9", "-", "1",
            "?", "Q", "?", "b", "?", "=", ")">>)) = Str(<<"(", "a", "b", ")">>)
    /\ decodeHeader(Str(<<"(", "=", "?", "I", "S", "O", "-", "8", "8", "5", "9", "-", "1", "?", "Q", "?",
            "a", "?", "=", " ", " ", "=", "?", "I", "S", "O", "-", "8", "8", "5", "9", "-",
            "1", "?", "Q", "?", "b", "?", "=", ")">>)) = Str(<<"(", "a", "b", ")">>)
    /\ decodeHeader(Str(<<"(", "=", "?", "I", "S", "O", "-", "8", "8", "5", "9", "-", "1", "?", "Q", "?",
            "a", "?", "=", "\r", "\n", " ", " ", "=", "?", "I", "S", "O", "-", "8", "8", "5",
            "9", "-", "1", "?", "Q", "?", "b", "?", "=", ")">>)) = Str(<<"(", "a", "b", ")">>)
    /\ decodeHeader(Str(<<"(", "=", "?", "I", "S", "O", "-", "8", "8", "5", "9", "-", "1", "?", "Q", "?",
            "a", "_", "b", "?", "=", ")">>)) = Str(<<"(", "a", " ", "b", ")">>)
    /\ decodeHeader(Str(<<"(", "=", "?", "I", "S", "O", "-", "8", "8", "5", "9", "-", "1", "?", "Q", "?",
            "a", "?", "=", " ", "=", "?", "I", "S", "O", "-", "8", "8", "5", "9", "-", "2",
            "?", "Q", "?", "_", "b", "?", "=", ")">>)) = Str(<<"(", "a", " ", "b", ")">>)
    /\ decodeHeader(Str(<<"=", "?", "u", "t", "f", "-", "8", "?", "q", "?", "a", "b", "c", "A", "B", "C",
            "_", "=", "2", "4", "_", "=", "c", "2", "=", "a", "2", "_", "=", "e", "2", "=",
            "8", "2", "=", "a", "c", "?", "=">>)) = Str(<<"a", "b", "c", "A", "B", "C", " ", "$", " ">>) \o <<194, 162, 32, 226, 130, 172>>
    /\ decodeHeader(Str(<<"=", "?", "i", "s", "o", "-", "8", "8", "5", "9", "-", "1", "?", "q", "?", "#",
            "=", "a", "3", "_", "c", "=", "a", "9", "_", "r", "=", "a", "e", "_", "u", "=",
            "b", "5", "?", "=">>)) = <<35, 194, 163, 32, 99, 194, 169, 32, 114, 194, 174, 32, 117, 194, 181>>
    /\ decodeHeader(Str(<<"=", "?", "b", "i", "g", "5", "?", "q", "?", "=", "a", "1", "=", "5", "d", "_",
            "=", "a", "1", "=", "6", "1", "_", "=", "a", "1", "=", "7", "1", "?", "=">>)) = <<239, 188, 136, 32, 239, 189, 155, 32, 227, 128, 136>>

TestVectorsReencode ==
    /\ decodeToUTF8Base64Header(Str(<<"n", "o", " ", "e", "n", "c", "o", "d", "i", "n", "g">>)) = Str(<<"n", "o", " ", "e", "n", "c", "o", "d", "i", "n", "g">>)
    /\ decodeToUTF8Base64Header(Str(<<"=", "?", "u", "t", "f", "-", "8", "?", "q", "?", "a", "b", "c", "A", "B", "C",
            "_", "=", "2", "4", "_", "=", "c", "2", "=", "a", "2", "_", "=", "e", "2", "=",
            "8", "2", "=", "a", "c", "?", "=">>)) = Str(<<"=", "?", "U", "T", "F", "-", "8", "?", "b", "?", "Y", "W", "J", "j", "Q", "U",
            "J", "D", "I", "C", "Q", "g", "w", "q", "I", "g", "4", "o", "K", "s", "?", "=">>)
    /\ decodeToUTF8Base64Header(Str(<<"=", "?", "i", "s", "o", "-", "8", "8", "5", "9", "-", "1", "?", "q", "?", "#",
            "=", "a", "3", "_", "c", "=", "a", "9", "_", "r", "=", "a", "e", "_", "u", "=",
            "b", "5", "?", "=">>)) = Str(<<"=", "?", "U", "T", "F", "-", "8", "?", "b", "?", "I", "8", "K", "j", "I", "G",
            "P", "C", "q", "S", "B", "y", "w", "q", "4", "g", "d", "c", "K", "1", "?", "=">>)
    /\ decodeToUTF8Base64Header(Str(<<"=", "?", "b", "i", "g", "5", "?", "q", "?", "=", "a", "1", "=", "5", "d", "_",
            "=", "a", "1", "=", "6", "1", "_", "=", "a", "1", "=", "7", "1", "?", "=">>)) = Str(<<"=", "?", "U", "T", "F", "-", "8", "?", "b", "?", "7", "7", "y", "I", "I", "O",
            "+", "9", "m", "y", "D", "j", "g", "I", "g", "=", "?", "=">>)
    /\ decodeToUTF8Base64Header(Str(<<"=", "?", "U", "T", "F", "-", "8", "?", "Q", "?", "M", "i", "r", "o", "s", "=",
            "C", "5", "=", "8", "2", "a", "w", "?", "=", " ", "<", "u", "@", "h", ">">>)) = Str(<<"=", "?", "U", "T", "F", "-", "8", "?", "b", "?", "T", "W", "l", "y", "b", "3",
            "P", "F", "g", "m", "F", "3", "?", "=", " ", "<", "u", "@", "h", ">">>)
    /\ decodeToUTF8Base64Header(Str(<<"F", "i", "r", "s", "t", " ", "L", "a", "s", "t", " ", "<", "u", "@", "h", ">",
            " ", "(", "=", "?", "i", "s", "o", "-", "8", "8", "5", "9", "-", "1", "?", "q",
            "?", "#", "=", "a", "3", "_", "c", "=", "a", "9", "_", "r", "=", "a", "e", "_",
            "u", "=", "b", "5", "?", "=", ")">>)) = Str(<<"F", "i", "r", "s", "t", " ", "L", "a", "s", "t", " ", "<", "u", "@", "h", ">",
            " ", "(", "=", "?", "U", "T", "F", "-", "8", "?", "b", "?", "I", "8", "K", "j",
            "I", "G", "P", "C", "q", "S", "B", "y", "w", "q", "4", "g", "d", "c", "K", "1",
            "?", "=", ")">>)

(***************************************************************************)
(* What the words of a value stand for, written down by hand: the text of  *)
(* each encoded-word that decodes, and the value word by word.             *)
(***************************************************************************)
GoodText(w) ==
    CASE w = wA -> Str(<<"a">>)
      [] w = wE -> <<195, 169>>
      [] w = wB -> <<195, 169>>
      [] w = wL2 -> Str(<<" ", "b">>)

\* each word by itself: its text if it decodes, otherwise the word as it stands;
\* the gap is left out between two words that both decode and kept anywhere else
RECURSIVE WordByWord(_, _)
WordByWord(ws, g) ==
    IF ws = <<>> THEN <<>>
    ELSE LET first == IF ws[1] \in GoodWords THEN GoodText(ws[1]) ELSE ws[1] IN
         IF Len(ws) = 1 THEN first
         ELSE first
              \o (IF ws[1] \in GoodWords /\ ws[2] \in GoodWords THEN <<>> ELSE g)
              \o WordByWord(Tail(ws), g)

Parens(s, w) == IF w THEN Str(<<"(">>) \o s \o Str(<<")">>) ELSE s

AllWordsIn(S) == \A i \in 1..Len(words) : words[i] \in S

\* C5: decodeHeader falls back per token: an encoded-word that cannot be decoded
\* (CR or LF in its charset or encoding, an encoding other than Q and B, a mangled
\* terminator, an unknown charset) stays as it is at its place, and every other
\* encoded-word of the value is decoded all the same.
C5_PerTokenFallback ==
    (phase # "input" /\ AllWordsIn(GoodWords \cup BadWords \cup {litB}))
        => decoded = Parens(WordByWord(words, gap), wrapped)

\* C6: in the result of decodeHeader the white space that separates two decoded
\* encoded-words and nothing else is gone, the white space between an encoded-word
\* and ordinary literal text is kept as it stands in the input.
C6_AdjacencyElision ==
    (phase # "input" /\ AllWordsIn(GoodWords \cup {litB}))
        => decoded = Parens(WordByWord(words, gap), wrapped)

\* C6 witness: the folded pair of the tests, (=?ISO-8859-1?Q?a?= CRLF SP SP
\* =?ISO-8859-1?Q?a?=), has been decoded to (aa).
C6_Witness ==
    /\ phase = "decoded"
    /\ words = <<wA, wA>>
    /\ gap = Str(<<"\r", "\n", " ", " ">>)
    /\ wrapped
    /\ decoded = Str(<<"(", "a", "a", ")">>)

\* a second case of C6: an encoded-word, two spaces and literal text keep the two spaces
C6_WitnessLiteral ==
    /\ phase = "decoded"
    /\ words = <<wE, litB>>
    /\ gap = Str(<<" ", " ">>)
    /\ decoded = <<195, 169, 32, 32, 98>>

\* the encoded-word the re-encoder is to produce for text t
TargetWord(t) == Str(<<"=", "?", "U", "T", "F", "-", "8", "?", "b", "?">>) \o B64Encode(t) \o Str(<<"?", "=">>)

Spaced == Len(words) >= 2 => gap # <<>>

\* C7: decodeToUTF8Base64Header replaces every encoded-word that decodes by an
\* encoded-word with charset UTF-8 and encoding b, whatever its charset, encoding
\* and decoded text; none comes out as bare decoded text.
C7_AlwaysTargetWord ==
    (phase \in {"reencoded", "roundtrip"} /\ AllWordsIn(GoodWords) /\ Spaced)
        => reencoded =
             Parens(Join([i \in 1..Len(words) |-> TargetWord(GoodText(words[i]))], Str(<<" ">>)),
                    wrapped)

SingleCharset ==
    \/ AllWordsIn({wA, wE, litB})
    \/ AllWordsIn({wB, litB})
    \/ AllWordsIn({wL2, litB})

\* C8: round trip: for a well-formed value of one charset, decoding the re-encoded
\* value gives what decoding the value gives (here with the words of the value
\* next to each other or one space apart).
C8_RoundTrip ==
    (phase = "roundtrip" /\ SingleCharset /\ gap \in {<<>>, Str(<<" ">>)})
        => redecoded = decoded

\* a token of the re-encoder qualifies for re-encoding
Qualifies(token) == Len(token) > 4 /\ Contains(token, Str(<<"=", "?">>))

Unparen(token) ==
    LET t1 == IF token[1] = Ord("(") THEN Tail(token) ELSE token
    IN  IF t1[Len(t1)] = Ord(")") THEN SubSeq(t1, 1, Len(t1) - 1) ELSE t1

\* a token the re-encoder has nothing to do to
StaysVerbatim(token) ==
    ~Qualifies(token) \/ decodeHeader(Unparen(token)) = Unparen(token)

\* C9: decodeToUTF8Base64Header keeps what is not a decodable encoded-word: a
\* token that does not qualify, or qualifies and comes back from decodeHeader as
\* it went in, is in the output byte for byte at its place (with its parentheses),
\* and the tokens are joined by single spaces in their order.
C9_VerbatimTokens ==
    (phase \in {"reencoded", "roundtrip"} /\ Contains(Value, Str(<<"=", "?">>)))
        => LET tokens == FieldsFunc(Value) IN
           reencoded =
             Join([i \in 1..Len(tokens) |->
                      IF StaysVerbatim(tokens[i]) THEN tokens[i] ELSE reencodeToken(tokens[i])],
                  Str(<<" ">>))

(***************************************************************************)
(* package bufio: the reader r that readHeader shares with its caller.     *)
(***************************************************************************)
\* r.ReadSlice('\n') with d[p:] still to come and a buffer of n bytes: the line
\* with its delimiter; the whole buffer and ErrBufferFull when n bytes hold no
\* delimiter; what is left and io.EOF when the stream ends first.
ReadSlice(d, p, n) ==
    LET rem == Slice(d, p, Len(d))
        i == Index(rem, Str(<<"\n">>))
    IN  IF i >= 0 /\ i + 1 <= n THEN [line |-> Slice(rem, 0, i + 1), err |-> "nil"]
        ELSE IF Len(rem) >= n THEN [line |-> Slice(rem, 0, n), err |-> "ErrBufferFull"]
        ELSE [line |-> rem, err |-> "EOF"]

\* r.ReadLine(): ReadSlice without the end-of-line bytes; a full buffer is handed
\* out as a prefix of the line.
ReadLine(d, p, n) ==
    LET r == ReadSlice(d, p, n)
        l == r.line
        noLF == IF Len(l) > 0 /\ l[Len(l)] = 10 THEN Slice(l, 0, Len(l) - 1) ELSE l
        noCR == IF Len(noLF) < Len(l) /\ Len(noLF) > 0 /\ noLF[Len(noLF)] = 13
                THEN Slice(noLF, 0, Len(noLF) - 1) ELSE noLF
    IN  IF r.err = "ErrBufferFull" THEN [line |-> l, isPrefix |-> TRUE, err |-> "nil", n |-> Len(l)]
        ELSE IF Len(l) = 0 THEN [line |-> <<>>, isPrefix |-> FALSE, err |-> r.err, n |-> 0]
        ELSE [line |-> noCR, isPrefix |-> FALSE, err |-> "nil", n |-> Len(l)]

(***************************************************************************)
(* package net/textproto: tr.ReadMIMEHeader() on readHeader's buf          *)
(* (src/header.go:81-82).  A header is the fields in the order their keys  *)
(* were first met, each key with its values in order.  strict tells the    *)
(* two generations of the package apart: the newer one refuses a first     *)
(* line that starts with white space and a key that is not a token, the    *)
(* older one takes such a key as it stands.  Both refuse a line without a  *)
(* colon and hand back the fields read so far together with the error.     *)
(***************************************************************************)
\* the lines of b without their end-of-line bytes; bytes after the last LF are a line too
RECURSIVE SplitLines(_)
SplitLines(b) ==
    IF b = <<>> THEN <<>>
    ELSE LET i == Index(b, Str(<<"\n">>)) IN
         IF i = -1 THEN <<b>>
         ELSE LET l == Slice(b, 0, i)
                  t == IF Len(l) > 0 /\ l[Len(l)] = 13 THEN Slice(l, 0, Len(l) - 1) ELSE l
              IN  <<t>> \o SplitLines(Slice(b, i + 1, Len(b)))

IsBlank(c) == c = 32 \/ c = 9

RECURSIVE TrimLeft(_)
TrimLeft(l) == IF l # <<>> /\ IsBlank(Head(l)) THEN TrimLeft(Tail(l)) ELSE l

RECURSIVE TrimRight(_)
TrimRight(l) ==
    IF l # <<>> /\ IsBlank(l[Len(l)]) THEN TrimRight(SubSeq(l, 1, Len(l) - 1)) ELSE l

trim(l) == TrimRight(TrimLeft(l))

\* the older package drops the spaces that end a key
RECURSIVE DropSpacesRight(_)
DropSpacesRight(l) ==
    IF l # <<>> /\ l[Len(l)] = 32 THEN DropSpacesRight(SubSeq(l, 1, Len(l) - 1)) ELSE l

\* readContinuedLineSlice from line i of ls on: the line, trimmed, with the lines
\* after it that start with a space or a tab, each trimmed and joined by one space
RECURSIVE ContinuedFrom(_, _, _)
ContinuedFrom(ls, i, acc) ==
    IF i <= Len(ls) /\ ls[i] # <<>> /\ IsBlank(ls[i][1])
    THEN ContinuedFrom(ls, i + 1, acc \o <<32>> \o trim(ls[i]))
    ELSE [kv |-> acc, next |-> i]

readContinuedLineSlice(ls, i) == ContinuedFrom(ls, i + 1, trim(ls[i]))

validHeaderFieldByte(c) ==
    \/ (c >= 48 /\ c <= 57) \/ (c >= 65 /\ c <= 90) \/ (c >= 97 /\ c <= 122)
    \/ c \in {33, 35, 36, 37, 38, 39, 42, 43, 45, 46, 94, 95, 96, 124, 126}

\* the canonical form of a key: the first letter and any letter after a hyphen in
\* upper case, the rest in lower case
RECURSIVE Canonical(_, _)
Canonical(a, upper) ==
    IF a = <<>> THEN <<>>
    ELSE LET c == IF upper THEN ToUpperByte(Head(a)) ELSE ToLowerByte(Head(a))
         IN  <<c>> \o Canonical(Tail(a), c = 45)

\* canonicalMIMEHeaderKey: a key with a byte that is no token byte is not canonicalized
canonicalMIMEHeaderKey(a) ==
    IF \A i \in 1..Len(a) : validHeaderFieldByte(a[i])
    THEN [key |-> Canonical(a, TRUE), ok |-> TRUE]
    ELSE [key |-> a, ok |-> \A i \in 1..Len(a) : validHeaderFieldByte(a[i]) \/ a[i] = 32]

\* m[key] = append(m[key], value)
AddField(m, key, value) ==
    IF \E i \in 1..Len(m) : m[i].key = key
    THEN [i \in 1..Len(m) |->
            IF m[i].key = key THEN [key |-> key, vals |-> Append(m[i].vals, value)] ELSE m[i]]
    ELSE Append(m, [key |-> key, vals |-> <<value>>])

RECURSIVE MIMELoop(_, _, _, _)
MIMELoop(ls, i, m, st) ==
    IF i > Len(ls) THEN [m |-> m, err |-> "EOF"]
    ELSE IF ls[i] = <<>> THEN [m |-> m, err |-> "nil"]
    ELSE
    LET c == readContinuedLineSlice(ls, i)
        kv == c.kv
        colon == Index(kv, Str(<<":">>))
    IN
    IF kv = <<>> THEN [m |-> m, err |-> "nil"]
    ELSE IF colon < 0 THEN [m |-> m, err |-> "ProtocolError"]
    ELSE
    LET k == IF st THEN Slice(kv, 0, colon) ELSE DropSpacesRight(Slice(kv, 0, colon))
        ck == canonicalMIMEHeaderKey(k)
        value == TrimLeft(Slice(kv, colon + 1, Len(kv)))
    IN
    IF st /\ ~ck.ok THEN [m |-> m, err |-> "ProtocolError"]
    ELSE IF ck.key = <<>> THEN MIMELoop(ls, c.next, m, st)
    ELSE MIMELoop(ls, c.next, AddField(m, ck.key, value), st)

ReadMIMEHeader(b, st) ==
    LET ls == SplitLines(b) IN
    IF st /\ ls # <<>> /\ ls[1] # <<>> /\ IsBlank(ls[1][1])
    THEN [m |-> <<>>, err |-> "ProtocolError"]
    ELSE MIMELoop(ls, 1, <<>>, st)

\* textproto.CanonicalMIMEHeaderKey, as header.Get uses it
CanonicalMIMEHeaderKey(k) == canonicalMIMEHeaderKey(k).key

\* header[key], all values
Values(h, key) ==
    IF \E i \in 1..Len(h.m) : h.m[i].key = CanonicalMIMEHeaderKey(key)
    THEN (CHOOSE e \in {h.m[i] : i \in 1..Len(h.m)} : e.key = CanonicalMIMEHeaderKey(key)).vals
    ELSE <<>>

\* header.Get(key): the first value, or ""
Get(h, key) == IF Values(h, key) = <<>> THEN <<>> ELSE Values(h, key)[1]

(***************************************************************************)
(* readHeader, src/header.go:63-84, one action for each way round its loop *)
(***************************************************************************)
NilHeader == [nil |-> TRUE, m |-> <<>>]

\* the "End of headers" test of src/header.go:72
EndOfHeaders(lineBuf) == Len(lineBuf) = 0 \/ lineBuf[1] = 13 \/ lineBuf[1] = 10

\* src/header.go:68-76: a header line goes to buf
ReadHeaderLine ==
    /\ pc = "loop"
    /\ LET r == ReadSlice(data, pos, size) IN
       /\ r.err = "nil"
       /\ ~EndOfHeaders(r.line)
       /\ buf' = buf \o r.line
       /\ pos' = pos + Len(r.line)
    /\ UNCHANGED <<data, size, strict, pc, header, err, pErrors, stopLine, bodyLine>>
    /\ UNCHANGED <<wordVars, errVars>>

\* the read fails and the loop is left with break instead of return: the lines
\* buffered so far are parsed and returned, and the failure is recorded in p.Errors
ReadHeaderFailBreaks ==
    /\ pc = "loop"
    /\ LET r == ReadSlice(data, pos, size) IN
       /\ r.err # "nil"
       /\ pos' = pos + Len(r.line)
       /\ buf' = buf \o <<13, 10>>
       /\ pErrors' = Append(pErrors, r.err)
       /\ LET res == ReadMIMEHeader(buf \o <<13, 10>>, strict) IN
          /\ header' = [nil |-> FALSE, m |-> res.m]
          /\ err' = res.err
    /\ pc' = "done"
    /\ UNCHANGED <<data, size, strict, stopLine, bodyLine>>
    /\ UNCHANGED <<wordVars, errVars>>

\* src/header.go:68-71: the read fails: return nil, err
ReadHeaderFail ==
    /\ pc = "loop"
    /\ LET r == ReadSlice(data, pos, size) IN
       /\ r.err # "nil"
       /\ pos' = pos + Len(r.line)
       /\ header' = NilHeader
       /\ err' = r.err
    /\ pc' = "done"
    /\ UNCHANGED <<data, size, strict, buf, pErrors, stopLine, bodyLine>>
    /\ UNCHANGED <<wordVars, errVars>>

\* src/header.go:72-83: end of headers: CRLF goes to buf, textproto parses buf
ReadHeaderEnd ==
    /\ pc = "loop"
    /\ LET r == ReadSlice(data, pos, size) IN
       /\ r.err = "nil"
       /\ EndOfHeaders(r.line)
       /\ pos' = pos + Len(r.line)
       /\ stopLine' = r.line
       /\ buf' = buf \o <<13, 10>>
       /\ LET res == ReadMIMEHeader(buf \o <<13, 10>>, strict) IN
          /\ header' = [nil |-> FALSE, m |-> res.m]
          /\ err' = res.err
    /\ pc' = "done"
    /\ UNCHANGED <<data, size, strict, pErrors, bodyLine>>
    /\ UNCHANGED <<wordVars, errVars>>

\* the caller reads on from the shared reader: line, isPrefix, err := r.ReadLine()
\* (src/header_test.go:212)
CallerReadLine ==
    /\ pc = "done"
    /\ LET r == ReadLine(data, pos, size) IN
       /\ bodyLine' = [line |-> r.line, isPrefix |-> r.isPrefix, err |-> r.err]
       /\ pos' = pos + r.n
    /\ pc' = "body"
    /\ UNCHANGED <<data, size, strict, buf, header, err, pErrors, stopLine>>
    /\ UNCHANGED <<wordVars, errVars>>

(***************************************************************************)
(* The streams readHeader is run on.                                       *)
(***************************************************************************)
lnA == Str(<<"A", ":", " ", "b", "\n">>)
lnFold == Str(<<" ", "c", "\n">>)
lnNoColon == Str(<<"x", "y", "\n">>)
lnBadName == Str(<<"x", "=", "y", ":", "z", "\n">>)
lnB == Str(<<"B", ":", " ", "d", "\r", "\n">>)
lnCR == Str(<<"\r", "Z", "\n">>)
lnA2 == Str(<<"a", ":", " ", "e", "\n">>)

HeaderLines == {lnA, lnFold, lnNoColon, lnBadName, lnB, lnCR, lnA2}

bodyText == Str(<<"B", "o", "d", "y", "\n">>)

\* after the header lines: a blank line (LF or CRLF) and the body, nothing at all,
\* or a last line that the end of the stream cuts short
Tails == {<<10>> \o bodyText, <<13, 10>> \o bodyText, <<>>, Str(<<"C", ":", " ", "f">>)}

\* the input of TestReadHeader, src/header_test.go:162-171
TestInput ==
    Str(<<"F", "r", "o", "m", ":", " ", "s", "o", "m", "e", "b", "o", "d", "y", "\n">>)
    \o Str(<<"C", "o", "n", "t", "e", "n", "t", "-", "T", "y", "p", "e", ":", " ", "t", "e",
            "x", "t", "/", "p", "l", "a", "i", "n", ";", "\n">>)
    \o Str(<<" ", "c", "h", "a", "r", "s", "e", "t", "=", "u", "s", "-", "a", "s", "c", "i",
            "i", "\n">>)
    \o Str(<<"X", "-", "B", "a", "d", "-", "C", "o", "n", "t", "i", "n", "u", "a", "t", "i",
            "o", "n", ":", " ", "l", "i", "n", "e", "1", "=", "f", "o", "o", ";", "\n">>)
    \o Str(<<"l", "i", "n", "e", "2", "=", "b", "a", "r", ";", " ", "n", "a", "m", "e", "=",
            "v", "a", "l", "u", "e", ":", "t", "e", "x", "t", "\n">>)
    \o Str(<<"X", "-", "N", "o", "t", "-", "C", "o", "n", "t", "i", "n", "u", "a", "t", "i",
            "o", "n", ":", " ", "l", "i", "n", "e", "1", "=", "f", "o", "o", ";", "\n">>)
    \o Str(<<"l", "i", "n", "e", "2", ":", " ", "b", "a", "r", "\n">>)
    \o Str(<<"\n", "P", "a", "r", "t", " ", "b", "o", "d", "y", "\n">>)

Init ==
    /\ \/ /\ \E ls \in UNION {[1..n -> HeaderLines] : n \in 0..MaxLines} :
               \E t \in Tails : data = Flatten(ls) \o t
          /\ size = 4096
       \/ /\ data = TestInput
          /\ size \in {16, 4096}
    /\ strict \in BOOLEAN
    /\ pos = 0
    /\ buf = <<>>
    /\ pc = "loop"
    /\ header = NilHeader
    /\ err = "nil"
    /\ pErrors = <<>>
    /\ stopLine = <<>>
    /\ bodyLine = [line |-> <<>>, isPrefix |-> FALSE, err |-> "nil"]
    /\ words = <<>> /\ gap = <<>> /\ wrapped = FALSE /\ phase = "idle"
    /\ decoded = <<>> /\ reencoded = <<>> /\ redecoded = <<>>
    /\ made = <<>> /\ rendered = [of |-> 0, s |-> <<>>]

Next == ReadHeaderLine \/ ReadHeaderFail \/ ReadHeaderEnd \/ CallerReadLine

Spec == Init /\ [][Next]_vars

(***************************************************************************)
(* The stream as the lines a reader without a size limit would hand out,   *)
(* and what a lenient reading of a header block makes of them.             *)
(***************************************************************************)
\* the lines of d with their end-of-line bytes; bytes after the last LF are a line too
RECURSIVE RawLines(_)
RawLines(d) ==
    IF d = <<>> THEN <<>>
    ELSE LET i == Index(d, Str(<<"\n">>)) IN
         IF i = -1 THEN <<d>>
         ELSE <<Slice(d, 0, i + 1)>> \o RawLines(Slice(d, i + 1, Len(d)))

\* an empty line: nothing before its terminator, LF or CR LF
IsEmptyLine(l) == l = <<10>> \/ l = <<13, 10>>

Complete(l) == l # <<>> /\ l[Len(l)] = 10

\* a line without its end-of-line bytes
Chomp(l) ==
    LET a == IF l # <<>> /\ l[Len(l)] = 10 THEN SubSeq(l, 1, Len(l) - 1) ELSE l
    IN  IF Len(a) < Len(l) /\ a # <<>> /\ a[Len(a)] = 13 THEN SubSeq(a, 1, Len(a) - 1) ELSE a

\* the index of the first empty line of the stream, 0 if it has none
FirstEmpty(d) ==
    LET ls == RawLines(d)
        at == {i \in 1..Len(ls) : IsEmptyLine(ls[i])}
    IN  IF at = {} THEN 0 ELSE SetMin(at)

\* the header block: the lines before the first empty line
Block(d) == SubSeq(RawLines(d), 1, FirstEmpty(d) - 1)

RECURSIVE TotalLen(_)
TotalLen(ls) == IF ls = <<>> THEN 0 ELSE Len(Head(ls)) + TotalLen(Tail(ls))

\* a block readHeader reads to its end: an empty line ends it, no line of it starts
\* with a CR and each line fits the reader's buffer
ProperBlock(d, n) ==
    /\ FirstEmpty(d) > 0
    /\ \A i \in 1..Len(Block(d)) : Block(d)[i][1] # 13 /\ Len(Block(d)[i]) <= n

\* name ":" value, the name a token that starts the line
WellFormedField(l) ==
    LET c == Index(l, Str(<<":">>)) IN
    c > 0 /\ \A i \in 1..c : validHeaderFieldByte(l[i])

FieldName(l) == Canonical(Slice(l, 0, Index(l, Str(<<":">>))), TRUE)
FieldValue(l) == trim(Slice(l, Index(l, Str(<<":">>)) + 1, Len(l)))

RECURSIVE StripSpaces(_)
StripSpaces(v) ==
    IF v = <<>> THEN <<>>
    ELSE (IF Head(v) = 32 THEN <<>> ELSE <<Head(v)>>) \o StripSpaces(Tail(v))

\* the lenient reading: a well-formed line starts a field, any other line is
\* folded into the value of the field before it
RECURSIVE LenientFields(_, _)
LenientFields(ls, acc) ==
    IF ls = <<>> THEN acc
    ELSE LET l == Chomp(Head(ls)) IN
         IF WellFormedField(l)
         THEN LenientFields(Tail(ls), Append(acc, [key |-> FieldName(l), val |-> FieldValue(l)]))
         ELSE IF acc = <<>> THEN LenientFields(Tail(ls), acc)
         ELSE LenientFields(Tail(ls),
                 [acc EXCEPT ![Len(acc)].val = @ \o <<32>> \o trim(l)])

\* the values of key among fields fs, in order
RECURSIVE ValuesOf(_, _)
ValuesOf(fs, key) ==
    IF fs = <<>> THEN <<>>
    ELSE (IF Head(fs).key = key THEN <<Head(fs).val>> ELSE <<>>) \o ValuesOf(Tail(fs), key)

SameModuloSpaces(vs, ws) ==
    /\ Len(vs) = Len(ws)
    /\ \A i \in 1..Len(vs) : StripSpaces(vs[i]) = StripSpaces(ws[i])

IsPrefix(a, b) == Len(a) <= Len(b) /\ SubSeq(b, 1, Len(a)) = a

Finished == pc \in {"done", "body"}

\* C1: readHeader reads every header block leniently: a line that does not start
\* with white space and is no "name: value" is folded into the value of the field
\* before it, a line that is "name: value" starts its own field; for the block of
\* the tests X-Bad-Continuation is "line1=foo;line2=bar; name=value:text" and
\* X-Not-Continuation is "line1=foo;" (modulo spaces), and there is no error.
C1_LenientContinuation ==
    (Finished /\ ProperBlock(data, size) /\ Block(data) # <<>>
              /\ WellFormedField(Chomp(Block(data)[1])))
        => /\ err = "nil"
           /\ LET fs == LenientFields(Block(data), <<>>) IN
              \A i \in 1..Len(fs) :
                  SameModuloSpaces(Values(header, fs[i].key), ValuesOf(fs, fs[i].key))
           /\ data = TestInput =>
                /\ StripSpaces(Get(header, Str(<<"X", "-", "B", "a", "d", "-", "C", "o", "n", "t", "i", "n", "u", "a",
                        "t", "i", "o", "n">>)))
                     = Str(<<"l", "i", "n", "e", "1", "=", "f", "o", "o", ";", "l", "i", "n", "e",
                        "2", "=", "b", "a", "r", ";", "n", "a", "m", "e", "=", "v", "a", "l",
                        "u", "e", ":", "t", "e", "x", "t">>)
                /\ StripSpaces(Get(header, Str(<<"X", "-", "N", "o", "t", "-", "C", "o", "n", "t", "i", "n", "u", "a",
                        "t", "i", "o", "n">>)))
                     = Str(<<"l", "i", "n", "e", "1", "=", "f", "o", "o", ";">>)

\* C2: readHeader stops at the first empty line of the stream (nothing before its
\* LF or CR LF) and only there; when it returns without error the reader stands
\* right behind that line, so that the next read gives the first line of the body.
C2_StopsAtEmptyLine ==
    /\ (pc = "done" /\ err = "nil")
         => /\ IsEmptyLine(stopLine)
            /\ FirstEmpty(data) > 0
            /\ pos = TotalLen(SubSeq(RawLines(data), 1, FirstEmpty(data)))
    /\ (pc = "body" /\ err = "nil" /\ FirstEmpty(data) > 0
                    /\ FirstEmpty(data) < Len(RawLines(data)))
         => bodyLine.line = Chomp(RawLines(data)[FirstEmpty(data) + 1])

\* the fields of the lines that are "name: value", each with the value on its line
RECURSIVE OwnFields(_)
OwnFields(ls) ==
    IF ls = <<>> THEN <<>>
    ELSE LET l == Chomp(Head(ls)) IN
         (IF WellFormedField(l) THEN <<[key |-> FieldName(l), val |-> FieldValue(l)]>> ELSE <<>>)
         \o OwnFields(Tail(ls))

\* C3: a malformed line costs no well-formed field: of a header block that an
\* empty line ends, every line that is "name: value" is in the returned map
\* (lines of one name in their order), and readHeader returns no error.
C3_NoFieldDropped ==
    (Finished /\ ProperBlock(data, size) /\ OwnFields(Block(data)) # <<>>)
        => /\ err = "nil"
           /\ LET fs == OwnFields(Block(data)) IN
              \A i \in 1..Len(fs) :
                  LET got == Values(header, fs[i].key)
                      want == ValuesOf(fs, fs[i].key)
                  IN  /\ Len(got) = Len(want)
                      /\ \A k \in 1..Len(got) :
                            IsPrefix(StripSpaces(want[k]), StripSpaces(got[k]))

\* what the reads of readHeader's loop run into first: a line of the stream that
\* starts with CR or LF ("end"), a line that does not fit the buffer
\* ("ErrBufferFull"), or the end of the stream ("EOF")
RECURSIVE FirstEvent(_, _)
FirstEvent(ls, n) ==
    IF ls = <<>> THEN "EOF"
    ELSE LET l == Head(ls) IN
         IF Len(l) > n \/ (~Complete(l) /\ Len(l) >= n) THEN "ErrBufferFull"
         ELSE IF ~Complete(l) THEN "EOF"
         ELSE IF l[1] = 13 \/ l[1] = 10 THEN "end"
         ELSE FirstEvent(Tail(ls), n)

C4_WitnessBufferFull ==
    /\ pc = "done"
    /\ data = TestInput
    /\ err = "ErrBufferFull"
    /\ header = NilHeader

(***************************************************************************)
(* MIMEError, src/unnamed/part_002                                         *)
(***************************************************************************)
\* the errorName constants, src/unnamed/part_002:9-11
errorBoundaryMissing == Str(<<"B", "o", "u", "n", "d", "a", "r", "y", " ", "M", "i", "s", "s", "i", "n", "g">>)

ErrorNames == {errorBoundaryMissing}

\* fmt.Sprintf for the verbs %s and %v with string operands, and %%: an operand
\* for each verb in turn, %!v(MISSING) for a verb without operand, and the operands
\* left over in a trailing %!(EXTRA string=..., string=...)
RECURSIVE Extra(_)
Extra(args) ==
    IF args = <<>> THEN <<>>
    ELSE Str(<<"s", "t", "r", "i", "n", "g", "=">>) \o Head(args)
         \o (IF Len(args) > 1 THEN Str(<<",", " ">>) ELSE <<>>) \o Extra(Tail(args))

RECURSIVE Format(_, _)
Format(f, args) ==
    IF f = <<>> THEN (IF args = <<>> THEN <<>> ELSE Str(<<"%", "!", "(", "E", "X", "T", "R", "A", " ">>) \o Extra(args) \o Str(<<")">>))
    ELSE IF Head(f) # Ord("%") THEN <<Head(f)>> \o Format(Tail(f), args)
    ELSE IF Len(f) = 1 THEN Str(<<"%", "!", "(", "N", "O", "V", "E", "R", "B", ")">>) \o Format(<<>>, args)
    ELSE IF f[2] = Ord("%") THEN <<f[2]>> \o Format(Slice(f, 2, Len(f)), args)
    ELSE IF f[2] = Ord("s") \/ f[2] = Ord("v") THEN
         IF args = <<>> THEN Str(<<"%", "!">>) \o <<f[2]>> \o Str(<<"(", "M", "I", "S", "S", "I", "N", "G", ")">>) \o Format(Slice(f, 2, Len(f)), args)
         ELSE Head(args) \o Format(Slice(f, 2, Len(f)), Tail(args))
    ELSE Str(<<"%", "!">>) \o <<f[2]>> \o Str(<<"(">>)
         \o (IF args = <<>> THEN Str(<<"M", "I", "S", "S", "I", "N", "G">>) ELSE Str(<<"s", "t", "r", "i", "n", "g", "=">>) \o Head(args))
         \o Str(<<")">>) \o Format(Slice(f, 2, Len(f)), IF args = <<>> THEN args ELSE Tail(args))

Sprintf(f, args) == Format(f, args)

\* newWarning with the severity of newError
newWarningSevere(name, detailFmt, args) ==
    [Name |-> name, Detail |-> Sprintf(detailFmt, args), Severe |-> TRUE]

\* newWarning, src/unnamed/part_002:21-27
newWarning(name, detailFmt, args) ==
    [Name |-> name, Detail |-> Sprintf(detailFmt, args), Severe |-> FALSE]

\* newError, src/unnamed/part_002:30-36
newError(name, detailFmt, args) ==
    [Name |-> name, Detail |-> Sprintf(detailFmt, args), Severe |-> TRUE]

\* (e *MIMEError) String(), src/unnamed/part_002:38-44
String(e) ==
    LET sev == IF e.Severe THEN Str(<<"E">>) ELSE Str(<<"W">>)
    IN  Sprintf(Str(<<"[", "%", "s", "]", " ", "%", "s", ":", " ", "%", "s">>), <<sev, e.Name, e.Detail>>)

\* what the callers format their details with
DetailFormats ==
    {Str(<<"n", "o", " ", "c", "l", "o", "s", "i", "n", "g", " ", "b", "o", "u", "n", "d",
            "a", "r", "y">>),
     Str(<<"B", "o", "u", "n", "d", "a", "r", "y", " ", "%", "s", " ", "m", "i", "s", "s",
            "i", "n", "g">>),
     Str(<<"p", "a", "r", "t", " ", "%", "v", " ", "o", "f", " ", "%", "s">>)}

DetailArgs == {<<>>, <<Str(<<"x">>)>>, <<Str(<<"%">>), Str(<<"y">>)>>}

\* the two records TestStringConversion writes out as literals,
\* src/unnamed/part_001:12-28
TestRecords ==
    {[Name |-> Str(<<"W", "a", "r", "n", "N", "a", "m", "e">>),
      Detail |-> Str(<<"W", "a", "r", "n", " ", "D", "e", "t", "a", "i", "l", "s">>), Severe |-> FALSE],
     [Name |-> Str(<<"E", "r", "r", "o", "r", "N", "a", "m", "e">>),
      Detail |-> Str(<<"E", "r", "r", "o", "r", " ", "D", "e", "t", "a", "i", "l", "s">>), Severe |-> TRUE]}

ErrorInit ==
    /\ made = <<>>
    /\ rendered = [of |-> 0, s |-> <<>>]
    /\ data = <<>> /\ size = 0 /\ strict = FALSE /\ pos = 0 /\ buf = <<>> /\ pc = "idle"
    /\ header = NilHeader /\ err = "nil" /\ pErrors = <<>>
    /\ stopLine = <<>> /\ bodyLine = [line |-> <<>>, isPrefix |-> FALSE, err |-> "nil"]
    /\ words = <<>> /\ gap = <<>> /\ wrapped = FALSE /\ phase = "idle"
    /\ decoded = <<>> /\ reencoded = <<>> /\ redecoded = <<>>

CallNewWarning ==
    /\ Len(made) < MaxErrors
    /\ \E name \in ErrorNames, f \in DetailFormats, args \in DetailArgs :
          made' = Append(made, [by |-> "newWarning", e |-> newWarning(name, f, args)])
    /\ UNCHANGED <<rendered, hdrVars, wordVars>>

CallNewError ==
    /\ Len(made) < MaxErrors
    /\ \E name \in ErrorNames, f \in DetailFormats, args \in DetailArgs :
          made' = Append(made, [by |-> "newError", e |-> newError(name, f, args)])
    /\ UNCHANGED <<rendered, hdrVars, wordVars>>

\* e := &MIMEError{...}, as the test writes its records
MakeLiteral ==
    /\ Len(made) < MaxErrors
    /\ \E e \in TestRecords : made' = Append(made, [by |-> "literal", e |-> e])
    /\ UNCHANGED <<rendered, hdrVars, wordVars>>

CallString ==
    /\ \E i \in 1..Len(made) : rendered' = [of |-> i, s |-> String(made[i].e)]
    /\ UNCHANGED <<made, hdrVars, wordVars>>

ErrorNext == CallNewWarning \/ CallNewError \/ MakeLiteral \/ CallString

ErrorSpec == ErrorInit /\ [][ErrorNext]_vars

\* C10: a record built by newWarning or newError has a Name that is not empty and
\* is one of the errorName constants, Severe is false for newWarning and true for
\* newError; String gives "[W] Name: Detail" for a record that is not severe and
\* "[E] Name: Detail" for one that is.
C10_DiagnosticRecords ==
    /\ \A i \in 1..Len(made) :
          made[i].by \in {"newWarning", "newError"}
              => /\ made[i].e.Name # <<>>
                 /\ made[i].e.Name \in ErrorNames
                 /\ made[i].e.Severe = (made[i].by = "newError")
    /\ rendered.of # 0
          => LET e == made[rendered.of].e IN
             rendered.s = (IF e.Severe THEN Str(<<"[", "E", "]", " ">>) ELSE Str(<<"[", "W", "]", " ">>))
                          \o e.Name \o Str(<<":", " ">>) \o e.Detail

\* C10 witness: a warning and an error have been built, and the warning, whose
\* detail came from the format "part %v of %s" with the operands "%" and "y",
\* has been rendered.
C10_Witness ==
    /\ Len(made) = 2
    /\ made[1].by = "newWarning" /\ made[2].by = "newError"
    /\ rendered.of = 1
    /\ rendered.s = Str(<<"[", "W", "]", " ", "B", "o", "u", "n", "d", "a", "r", "y", " ", "M", "i", "s",
            "s", "i", "n", "g", ":", " ", "p", "a", "r", "t", " ", "%", " ", "o", "f", " ", "y">>)

\* the test's own records come out as the test expects
C10_WitnessTest ==
    /\ Len(made) >= 1
    /\ made[1].by = "literal"
    /\ rendered.of = 1
    /\ rendered.s = Str(<<"[", "W", "]", " ", "W", "a", "r", "n", "N", "a", "m", "e", ":", " ", "W", "a",
            "r", "n", " ", "D", "e", "t", "a", "i", "l", "s">>)

====
